---- MODULE Spec2Model ----
(***************************************************************************)
(* pybind11/detail/eigen_tensor.h: the two type casters for Eigen tensors. *)
(*   type_caster<Type>                  owning tensor  <-> numpy array     *)
(*   type_caster<Eigen::TensorMap<Type>> non-owning view <-> numpy array   *)
(* The model follows one foreign array through load, cast and the life of  *)
(* the produced handle.  Buffers are flat sequences addressed through the  *)
(* strides of the memory order, so a layout conversion really permutes.    *)
(***************************************************************************)
EXTENDS Integers, Sequences, FiniteSets, TLC

VARIABLES kind, arr, bufs, value, mapValue, heapCopy, capsule, h,
          loadRes, mapLoadRes, castRes, writes, faults

vars == <<kind, arr, bufs, value, mapValue, heapCopy, capsule, h,
          loadRes, mapLoadRes, castRes, writes, faults>>

-----------------------------------------------------------------------------
(* Bounds of the exploration *)

\* largest entry of a foreign array's shape
MaxDim == 2
\* largest reference count a handle reaches
MaxRefs == 2
\* number of element writes in one behaviour
MaxWrites == 2

-----------------------------------------------------------------------------
(* The tensor kind (the template argument Type) *)

\* Eigen::Sizes<Indices...> of the fixed-size kind
FixedDims == <<1, 2>>

\* Type::NumIndices
NumIndices == Len(FixedDims)

\* Type::Scalar
Scalar == "float32"

DTypes == {"float16", "float32", "float64"}

Layouts == {"RowMajor", "ColMajor"}

ShapeKinds == {"Dynamic", "Fixed"}

Vals == {0, 1}

Policies == {"automatic", "automatic_reference", "take_ownership", "copy",
             "move", "reference", "reference_internal"}

OwnershipPolicies == {"take_ownership", "copy", "move", "reference",
                      "reference_internal"}

Forms == {"rvalue", "const_rvalue", "lvalue", "const_lvalue", "ptr", "const_ptr"}

ConstForms == {"const_rvalue", "const_lvalue", "const_ptr"}

\* a handle that refers to no object (handle()) or to some Python object
Parents == {"empty", "object"}

-----------------------------------------------------------------------------
(* Memory orders *)

\* compute_array_flag_from_tensor<T>()
compute_array_flag_from_tensor(layout) ==
    IF layout = "RowMajor" THEN "c_style" ELSE "f_style"

RECURSIVE Prod(_, _, _)
Prod(s, lo, hi) == IF lo > hi THEN 1 ELSE s[lo] * Prod(s, lo + 1, hi)

NumElems(shape) == Prod(shape, 1, Len(shape))

\* c_strides / f_strides, in elements
Stride(shape, i, order) ==
    IF order = "c_style" THEN Prod(shape, i + 1, Len(shape))
                         ELSE Prod(shape, 1, i - 1)

RECURSIVE OffsetFrom(_, _, _, _)
OffsetFrom(shape, idx, order, i) ==
    IF i > Len(shape) THEN 0
    ELSE (idx[i] - 1) * Stride(shape, i, order) + OffsetFrom(shape, idx, order, i + 1)

\* position (1-based) of the element idx in the flat buffer
Offset(shape, idx, order) == 1 + OffsetFrom(shape, idx, order, 1)

IndexSet(shape) ==
    {idx \in [1..Len(shape) -> 1..MaxDim] : \A i \in 1..Len(shape) : idx[i] <= shape[i]}

\* the multi-index stored at flat position k
Unravel(shape, k, order) ==
    CHOOSE idx \in IndexSet(shape) : Offset(shape, idx, order) = k

\* the logical contents of a flat buffer read with the given order
Elements(shape, order, data) ==
    [idx \in IndexSet(shape) |-> data[Offset(shape, idx, order)]]

\* the flat buffer that holds the logical contents el in the given order
Flatten(shape, order, el) ==
    [k \in 1..NumElems(shape) |-> el[Unravel(shape, k, order)]]

-----------------------------------------------------------------------------
(* Shape descriptor: eigen_tensor_helper *)

\* eigen_tensor_helper<TensorFixedSize>::get_shape()
get_shape_fixed == FixedDims

\* eigen_tensor_helper<...>::get_shape(const T &f)
get_shape(k, t) == IF k.shapeKind = "Dynamic" THEN t.shape ELSE get_shape_fixed

\* a fixed kind that compares only the first dimension
is_correct_shape_prefix(k, shape) ==
    IF k.shapeKind = "Dynamic" THEN TRUE ELSE get_shape_fixed[1] = shape[1]

\* eigen_tensor_helper<...>::is_correct_shape
is_correct_shape(k, shape) ==
    IF k.shapeKind = "Dynamic" THEN TRUE ELSE get_shape_fixed = shape

-----------------------------------------------------------------------------
(* Foreign array adapter (numpy.h) *)

\* the contiguity flags numpy derives from a shape stored in the given order
ContigFlags(shape, order) ==
    {order} \cup
    (IF Cardinality({i \in 1..Len(shape) : shape[i] > 1}) <= 1
     THEN {"c_style", "f_style"} ELSE {})

\* numpy's safe casting towards Scalar
SafeCast(from, to) ==
    \/ from = to
    \/ from = "float16" /\ to \in {"float32", "float64"}
    \/ from = "float32" /\ to = "float64"

NoArray == [ok |-> FALSE]

\* array_t<Scalar, flag>(object): the array itself when it already has the
\* element type and the order asked for, else a converted temporary; the
\* conversion is refused when the cast is not safe
array_t_from_object(a, b, flag) ==
    IF ~SafeCast(a.dtype, Scalar) THEN NoArray
    ELSE IF a.dtype = Scalar /\ flag \in a.flags
         THEN [ok |-> TRUE, shape |-> a.shape, data |-> b[a.buf].data, temp |-> FALSE]
         ELSE [ok |-> TRUE, shape |-> a.shape, temp |-> TRUE,
               data |-> Flatten(a.shape, flag, Elements(a.shape, a.order, b[a.buf].data))]

-----------------------------------------------------------------------------
(* Heap *)

NoBuf == 0

Alloc(b, data) == Append(b, [live |-> TRUE, data |-> data])

Free(b, i) == [b EXCEPT ![i] = [live |-> FALSE, data |-> <<>>]]

NoTensor == [state |-> "none"]

NoHandle == [state |-> "none"]

NoCapsule == [state |-> "none"]

NoCast == [caster |-> "none"]

-----------------------------------------------------------------------------
(* Initial states: a tensor kind and one foreign array of any rank up to    *)
(* NumIndices + 1, any element type and either memory order                 *)

ForeignShapes ==
    UNION {[1..n -> 1..MaxDim] : n \in 1..(NumIndices + 1)}

\* element idx of the array the caller passes in
InitElem(idx) == idx[1] % 2

InitData(shape, order) ==
    Flatten(shape, order, [idx \in IndexSet(shape) |-> InitElem(idx)])

Init ==
    /\ kind \in [shapeKind : ShapeKinds, layout : Layouts]
    /\ \E dt \in DTypes, ord \in {"c_style", "f_style"}, sh \in ForeignShapes :
          /\ arr = [dtype |-> dt, order |-> ord, shape |-> sh,
                    flags |-> ContigFlags(sh, ord), buf |-> 1]
          /\ bufs = <<[live |-> TRUE, data |-> InitData(sh, ord)]>>
    /\ value = NoTensor
    /\ mapValue = NoTensor
    /\ heapCopy = NoTensor
    /\ capsule = NoCapsule
    /\ h = NoHandle
    /\ loadRes = [ret |-> "none", shapeReads |-> 0]
    /\ mapLoadRes = [ret |-> "none"]
    /\ castRes = NoCast
    /\ writes = 0
    /\ faults = {}

-----------------------------------------------------------------------------
(* type_caster<Type>::load *)

\* the decision of load on the adapted array a: the value returned, the
\* number of shape entries copied out of a.shape() and the validated shape
load_result(k, a) ==
    IF ~a.ok THEN [ret |-> "throw", shapeReads |-> 0]
    ELSE IF Len(a.shape) # NumIndices THEN [ret |-> "false", shapeReads |-> 0]
    ELSE LET shape == [i \in 1..NumIndices |-> a.shape[i]] IN
         IF ~is_correct_shape(k, shape)
         THEN [ret |-> "false", shapeReads |-> NumIndices]
         ELSE [ret |-> "true", shapeReads |-> NumIndices, shape |-> shape]

Load ==
    /\ loadRes.ret = "none"
    /\ bufs[arr.buf].live
    /\ LET a == array_t_from_object(arr, bufs, compute_array_flag_from_tensor(kind.layout))
           r == load_result(kind, a)
       IN /\ loadRes' = [ret |-> r.ret, shapeReads |-> r.shapeReads]
          /\ IF r.ret = "true"
             THEN \* value = Eigen::TensorMap<Type>(a.data(), shape): the
                  \* assignment copies the elements into value's own storage
                  /\ bufs' = Alloc(bufs, a.data)
                  /\ value' = [state |-> "alive", shape |-> r.shape,
                               buf |-> Len(bufs) + 1, owner |-> "caller"]
             ELSE UNCHANGED <<bufs, value>>
    /\ UNCHANGED <<kind, arr, mapValue, heapCopy, capsule, h, mapLoadRes,
                   castRes, writes, faults>>

-----------------------------------------------------------------------------
(* type_caster<Eigen::TensorMap<Type>>::load *)

\* a map loader that accepts any element type
map_load_result_anydtype(k, a) ==
    IF compute_array_flag_from_tensor(k.layout) \notin a.flags THEN [ret |-> "false"]
    ELSE IF Len(a.shape) # NumIndices THEN [ret |-> "false"]
    ELSE LET shape == [i \in 1..NumIndices |-> a.shape[i]] IN
         IF ~is_correct_shape(k, shape) THEN [ret |-> "false"]
         ELSE [ret |-> "true", shape |-> shape]

map_load_result(k, a) ==
    IF compute_array_flag_from_tensor(k.layout) \notin a.flags THEN [ret |-> "false"]
    ELSE IF a.dtype # Scalar THEN [ret |-> "false"]
    ELSE IF Len(a.shape) # NumIndices THEN [ret |-> "false"]
    ELSE LET shape == [i \in 1..NumIndices |-> a.shape[i]] IN
         IF ~is_correct_shape(k, shape) THEN [ret |-> "false"]
         ELSE [ret |-> "true", shape |-> shape]

MapLoad ==
    /\ mapLoadRes.ret = "none"
    /\ bufs[arr.buf].live
    /\ LET r == map_load_result(kind, arr)
       IN /\ mapLoadRes' = [ret |-> r.ret]
          /\ IF r.ret = "true"
             THEN \* value.reset(new Eigen::TensorMap<Type>(a.mutable_data(), shape))
                  mapValue' = [state |-> "alive", shape |-> r.shape, buf |-> arr.buf]
             ELSE UNCHANGED mapValue
    /\ UNCHANGED <<kind, arr, bufs, value, heapCopy, capsule, h, loadRes,
                   castRes, writes, faults>>

-----------------------------------------------------------------------------
(* type_caster<Type>::cast_impl: the decision switch *)

Fatal(msg, policy) ==
    [fatal |-> TRUE, msg |-> msg, policy |-> policy]

Plan(policy, relocate, base, dtor, writeable) ==
    [fatal |-> FALSE, msg |-> "", policy |-> policy, relocate |-> relocate,
     base |-> base, dtor |-> dtor, writeable |-> writeable]

\* cast_impl whose copy case hands over none() as the base
cast_impl_copy_aliases(isConst, policy, parent) ==
    CASE policy = "move" ->
           IF isConst THEN Fatal("Cannot move from a constant reference", policy)
           ELSE Plan(policy, TRUE, "capsule", "aligned", TRUE)
      [] policy = "take_ownership" ->
           IF isConst THEN Fatal("Cannot take ownership of a const reference", policy)
           ELSE Plan(policy, FALSE, "capsule", "delete", TRUE)
      [] policy = "copy" -> Plan(policy, FALSE, "none", "none", TRUE)
      [] policy = "reference" -> Plan(policy, FALSE, "none", "none", ~isConst)
      [] policy = "reference_internal" -> Plan(policy, FALSE, parent, "none", ~isConst)
      [] OTHER -> Fatal("pybind11 bug in eigen.h, please file a bug report", policy)

\* cast_impl whose move case wraps the source itself, without relocating it
cast_impl_no_relocation(isConst, policy, parent) ==
    CASE policy = "move" ->
           IF isConst THEN Fatal("Cannot move from a constant reference", policy)
           ELSE Plan(policy, FALSE, "capsule", "aligned", TRUE)
      [] policy = "take_ownership" ->
           IF isConst THEN Fatal("Cannot take ownership of a const reference", policy)
           ELSE Plan(policy, FALSE, "capsule", "delete", TRUE)
      [] policy = "copy" -> Plan(policy, FALSE, "empty", "none", TRUE)
      [] policy = "reference" -> Plan(policy, FALSE, "none", "none", ~isConst)
      [] policy = "reference_internal" -> Plan(policy, FALSE, parent, "none", ~isConst)
      [] OTHER -> Fatal("pybind11 bug in eigen.h, please file a bug report", policy)

\* cast_impl that leaves every handle writeable
cast_impl_always_writeable(isConst, policy, parent) ==
    CASE policy = "move" ->
           IF isConst THEN Fatal("Cannot move from a constant reference", policy)
           ELSE Plan(policy, TRUE, "capsule", "aligned", TRUE)
      [] policy = "take_ownership" ->
           IF isConst THEN Fatal("Cannot take ownership of a const reference", policy)
           ELSE Plan(policy, FALSE, "capsule", "delete", TRUE)
      [] policy = "copy" -> Plan(policy, FALSE, "empty", "none", TRUE)
      [] policy = "reference" -> Plan(policy, FALSE, "none", "none", TRUE)
      [] policy = "reference_internal" -> Plan(policy, FALSE, parent, "none", TRUE)
      [] OTHER -> Fatal("pybind11 bug in eigen.h, please file a bug report", policy)

\* template <typename C> cast_impl(C *src, policy, parent); isConst is
\* std::is_const<C>::value.  The plan names what the part after the switch
\* does: whether *src was relocated, the base handed to array_t, the
\* destructor the capsule registers and the writeable flag.
cast_impl(isConst, policy, parent) ==
    CASE policy = "move" ->
           IF isConst THEN Fatal("Cannot move from a constant reference", policy)
           ELSE Plan(policy, TRUE, "capsule", "aligned", TRUE)
      [] policy = "take_ownership" ->
           IF isConst THEN Fatal("Cannot take ownership of a const reference", policy)
           ELSE Plan(policy, FALSE, "capsule", "delete", TRUE)
      [] policy = "copy" -> Plan(policy, FALSE, "empty", "none", TRUE)
      [] policy = "reference" -> Plan(policy, FALSE, "none", "none", ~isConst)
      [] policy = "reference_internal" -> Plan(policy, FALSE, parent, "none", ~isConst)
      [] OTHER -> Fatal("pybind11 bug in eigen.h, please file a bug report", policy)

-----------------------------------------------------------------------------
(* type_caster<Type>::cast: the six public overloads *)

\* an rvalue overload without the reference-policy check
cast_rvalue_unchecked(policy, parent) == cast_impl(FALSE, "move", parent)

\* cast(Type &&src, ...)
cast_rvalue(policy, parent) ==
    IF policy = "reference" \/ policy = "reference_internal"
    THEN Fatal("Cannot use a reference return value policy for an rvalue", "none")
    ELSE cast_impl(FALSE, "move", parent)

\* cast(const Type &&src, ...)
cast_const_rvalue(policy, parent) ==
    IF policy = "reference" \/ policy = "reference_internal"
    THEN Fatal("Cannot use a reference return value policy for an rvalue", "none")
    ELSE cast_impl(TRUE, "move", parent)

\* cast(Type &src, ...)
cast_lvalue(policy, parent) ==
    LET p == IF policy = "automatic" \/ policy = "automatic_reference"
             THEN "copy" ELSE policy
    IN cast_impl(FALSE, p, parent)

\* a pointer overload that forgets automatic_reference
cast_ptr_no_autoref(policy, parent) ==
    LET p == IF policy = "automatic" THEN "take_ownership" ELSE policy
    IN cast_impl(FALSE, p, parent)

\* cast(Type *src, ...)
cast_ptr(policy, parent) ==
    LET p == IF policy = "automatic" THEN "take_ownership"
             ELSE IF policy = "automatic_reference" THEN "reference"
             ELSE policy
    IN cast_impl(FALSE, p, parent)

\* cast(const Type *src, ...)
cast_const_ptr(policy, parent) ==
    LET p == IF policy = "automatic" THEN "take_ownership"
             ELSE IF policy = "automatic_reference" THEN "reference"
             ELSE policy
    IN cast_impl(TRUE, p, parent)

\* cast(const Type &src, ...): resolves the automatic policies and calls the
\* const pointer overload
cast_const_lvalue(policy, parent) ==
    LET p == IF policy = "automatic" \/ policy = "automatic_reference"
             THEN "copy" ELSE policy
    IN cast_const_ptr(p, parent)

\* overload resolution on the form of the source expression
cast(form, policy, parent) ==
    CASE form = "rvalue" -> cast_rvalue(policy, parent)
      [] form = "const_rvalue" -> cast_const_rvalue(policy, parent)
      [] form = "lvalue" -> cast_lvalue(policy, parent)
      [] form = "const_lvalue" -> cast_const_lvalue(policy, parent)
      [] form = "ptr" -> cast_ptr(policy, parent)
      [] form = "const_ptr" -> cast_const_ptr(policy, parent)

-----------------------------------------------------------------------------
(* type_caster<Eigen::TensorMap<Type>>::cast_impl and the six overloads *)

\* a map cast_impl that treats every other policy as reference
map_cast_impl_lenient(isConst, policy, parent) ==
    CASE policy = "reference_internal" -> Plan(policy, FALSE, parent, "none", ~isConst)
      [] OTHER -> Plan(policy, FALSE, "none", "none", ~isConst)

map_cast_impl(isConst, policy, parent) ==
    CASE policy = "reference" -> Plan(policy, FALSE, "none", "none", ~isConst)
      [] policy = "reference_internal" -> Plan(policy, FALSE, parent, "none", ~isConst)
      [] OTHER -> Fatal("Invalid return_value_policy for Eigen Map type, must be either reference or reference_internal", policy)

\* cast(Eigen::TensorMap<Type> &&src, ...)
map_cast_rvalue(policy, parent) == map_cast_impl(FALSE, policy, parent)

\* cast(const Eigen::TensorMap<Type> &&src, ...)
map_cast_const_rvalue(policy, parent) == map_cast_impl(TRUE, policy, parent)

\* cast(Eigen::TensorMap<Type> &src, ...)
map_cast_lvalue(policy, parent) ==
    LET p == IF policy = "automatic" \/ policy = "automatic_reference"
             THEN "copy" ELSE policy
    IN map_cast_impl(FALSE, p, parent)

\* cast(Eigen::TensorMap<Type> *src, ...)
map_cast_ptr(policy, parent) ==
    LET p == IF policy = "automatic" THEN "take_ownership"
             ELSE IF policy = "automatic_reference" THEN "reference"
             ELSE policy
    IN map_cast_impl(FALSE, p, parent)

\* cast(const Eigen::TensorMap<Type> *src, ...)
map_cast_const_ptr(policy, parent) ==
    LET p == IF policy = "automatic" THEN "take_ownership"
             ELSE IF policy = "automatic_reference" THEN "reference"
             ELSE policy
    IN map_cast_impl(TRUE, p, parent)

\* cast(const Eigen::TensorMap<Type> &src, ...)
map_cast_const_lvalue(policy, parent) ==
    LET p == IF policy = "automatic" \/ policy = "automatic_reference"
             THEN "copy" ELSE policy
    IN map_cast_const_ptr(p, parent)

map_cast(form, policy, parent) ==
    CASE form = "rvalue" -> map_cast_rvalue(policy, parent)
      [] form = "const_rvalue" -> map_cast_const_rvalue(policy, parent)
      [] form = "lvalue" -> map_cast_lvalue(policy, parent)
      [] form = "const_lvalue" -> map_cast_const_lvalue(policy, parent)
      [] form = "ptr" -> map_cast_ptr(policy, parent)
      [] form = "const_ptr" -> map_cast_const_ptr(policy, parent)

-----------------------------------------------------------------------------
(* Producing the handle: the part of cast_impl after the switch *)

\* array_t<Scalar, flag>(shape, ptr, base): with no base the new array owns
\* a copy of the elements at ptr; with a base it refers to ptr itself
array_t_from_pointer(b, shape, ptr, base) ==
    IF base = "empty"
    THEN [bufs |-> Alloc(b, b[ptr].data), buf |-> Len(b) + 1, owndata |-> TRUE]
    ELSE [bufs |-> b, buf |-> ptr, owndata |-> FALSE]

\* ::new (allocator.allocate(1)) Type(std::move(*src)): a dynamic tensor
\* hands its storage over and is left empty, a fixed-size tensor holds its
\* elements in place and they are copied into the new object
Relocate(k, src, b) ==
    IF k.shapeKind = "Dynamic"
    THEN [src |-> [src EXCEPT !.buf = NoBuf, !.shape = [i \in 1..NumIndices |-> 0]],
          copy |-> [state |-> "alive", shape |-> src.shape, buf |-> src.buf,
                    owner |-> "capsule"],
          bufs |-> b]
    ELSE [src |-> src,
          copy |-> [state |-> "alive", shape |-> src.shape, buf |-> Len(b) + 1,
                    owner |-> "capsule"],
          bufs |-> Alloc(b, b[src.buf].data)]

Handle(k, shape, made, r) ==
    [state |-> "alive", shape |-> shape, buf |-> made.buf,
     order |-> compute_array_flag_from_tensor(k.layout), dtype |-> Scalar,
     base |-> r.base, owndata |-> made.owndata, writeable |-> r.writeable, refs |-> 1]

CastRecord(caster, form, policy, parent, r) ==
    [caster |-> caster, form |-> form, policy |-> policy, parent |-> parent,
     outcome |-> IF r.fatal THEN "fatal" ELSE "handle", msg |-> r.msg,
     switch |-> r.policy]

\* type_caster<Type>::cast on the loaded tensor
Cast(form, policy, parent) ==
    /\ castRes = NoCast
    /\ value.state = "alive"
    /\ LET r == cast(form, policy, parent) IN
       /\ castRes' = CastRecord("tensor", form, policy, parent, r)
       /\ IF r.fatal
          THEN UNCHANGED <<bufs, value, heapCopy, capsule, h>>
          ELSE LET rel  == IF r.relocate THEN Relocate(kind, value, bufs)
                           ELSE [src |-> value, copy |-> NoTensor, bufs |-> bufs]
                   src  == IF r.relocate THEN rel.copy ELSE value
                   made == array_t_from_pointer(rel.bufs, get_shape(kind, src),
                                                src.buf, r.base)
               IN /\ bufs' = made.bufs
                  /\ heapCopy' = rel.copy
                  /\ value' = IF r.dtor = "delete"
                              THEN [rel.src EXCEPT !.owner = "capsule"]
                              ELSE rel.src
                  /\ capsule' = IF r.base = "capsule"
                                THEN [state |-> "alive", dtor |-> r.dtor, calls |-> 0,
                                      ptr |-> IF r.relocate THEN "heapCopy" ELSE "value"]
                                ELSE NoCapsule
                  /\ h' = Handle(kind, get_shape(kind, src), made, r)
    /\ UNCHANGED <<kind, arr, mapValue, loadRes, mapLoadRes, writes, faults>>

\* type_caster<Eigen::TensorMap<Type>>::cast on the loaded view
MapCast(form, policy, parent) ==
    /\ castRes = NoCast
    /\ mapValue.state = "alive"
    /\ LET r == map_cast(form, policy, parent) IN
       /\ castRes' = CastRecord("map", form, policy, parent, r)
       /\ IF r.fatal
          THEN UNCHANGED <<bufs, h>>
          ELSE LET made == array_t_from_pointer(bufs, get_shape(kind, mapValue),
                                                mapValue.buf, r.base)
               IN /\ bufs' = made.bufs
                  /\ h' = Handle(kind, get_shape(kind, mapValue), made, r)
    /\ UNCHANGED <<kind, arr, value, mapValue, heapCopy, capsule, loadRes,
                   mapLoadRes, writes, faults>>

-----------------------------------------------------------------------------
(* The life of the handle: the host runtime's reference counting *)

\* running a tensor's destructor: its storage goes with it
Destroy(t, b) ==
    IF t.state = "alive"
    THEN [t |-> [t EXCEPT !.state = "destroyed"],
          bufs |-> IF t.buf = NoBuf THEN b ELSE Free(b, t.buf), fault |-> {}]
    ELSE [t |-> t, bufs |-> b, fault |-> {"double_free"}]

IncRef ==
    /\ h.state = "alive"
    /\ h.refs < MaxRefs
    /\ h' = [h EXCEPT !.refs = @ + 1]
    /\ UNCHANGED <<kind, arr, bufs, value, mapValue, heapCopy, capsule,
                   loadRes, mapLoadRes, castRes, writes, faults>>

\* dropping a reference; the last one deallocates the array, which frees the
\* data it owns and releases its base: a capsule then runs its destructor
DecRef ==
    /\ h.state = "alive"
    /\ IF h.refs > 1
       THEN /\ h' = [h EXCEPT !.refs = @ - 1]
            /\ UNCHANGED <<bufs, value, heapCopy, capsule, faults>>
       ELSE /\ h' = [h EXCEPT !.refs = 0, !.state = "released"]
            /\ IF h.base = "capsule"
               THEN LET d == Destroy(IF capsule.ptr = "value" THEN value ELSE heapCopy,
                                     bufs)
                    IN /\ capsule' = [capsule EXCEPT !.calls = @ + 1,
                                                     !.state = "released"]
                       /\ bufs' = d.bufs
                       /\ faults' = faults \cup d.fault
                       /\ IF capsule.ptr = "value"
                          THEN value' = d.t /\ UNCHANGED heapCopy
                          ELSE heapCopy' = d.t /\ UNCHANGED value
               ELSE /\ bufs' = IF h.owndata THEN Free(bufs, h.buf) ELSE bufs
                    /\ UNCHANGED <<value, heapCopy, capsule, faults>>
    /\ UNCHANGED <<kind, arr, mapValue, loadRes, mapLoadRes, castRes, writes>>

\* the caller's tensor goes out of scope (or is deleted by the caller)
DestroySource ==
    /\ value.state = "alive"
    /\ value.owner = "caller"
    /\ LET d == Destroy(value, bufs) IN
       /\ value' = d.t
       /\ bufs' = d.bufs
       /\ faults' = faults \cup d.fault
    /\ UNCHANGED <<kind, arr, mapValue, heapCopy, capsule, h, loadRes,
                   mapLoadRes, castRes, writes>>

-----------------------------------------------------------------------------
(* Element writes through the foreign array, the tensor, the view, the handle *)

Targets == {"arr", "value", "map", "handle"}

CanWrite(target) ==
    CASE target = "arr" -> bufs[arr.buf].live
      [] target = "value" -> value.state = "alive" /\ value.buf # NoBuf
      [] target = "map" -> mapValue.state = "alive" /\ bufs[mapValue.buf].live
      [] target = "handle" -> h.state = "alive" /\ h.writeable /\ bufs[h.buf].live

BufOf(target) ==
    CASE target = "arr" -> arr.buf
      [] target = "value" -> value.buf
      [] target = "map" -> mapValue.buf
      [] target = "handle" -> h.buf

\* one write flips the last element of the target's buffer
Write(target) ==
    /\ writes < MaxWrites
    /\ CanWrite(target)
    /\ LET b == BufOf(target) IN
       bufs' = [bufs EXCEPT ![b].data[Len(bufs[b].data)] = 1 - @]
    /\ writes' = writes + 1
    /\ UNCHANGED <<kind, arr, value, mapValue, heapCopy, capsule, h, loadRes,
                   mapLoadRes, castRes, faults>>

-----------------------------------------------------------------------------

Next ==
    \/ Load
    \/ MapLoad
    \/ \E form \in Forms, policy \in Policies, parent \in Parents :
          Cast(form, policy, parent)
    \/ \E form \in Forms, policy \in Policies, parent \in Parents :
          MapCast(form, policy, parent)
    \/ IncRef
    \/ DecRef
    \/ DestroySource
    \/ \E target \in Targets : Write(target)

Spec == Init /\ [][Next]_vars

-----------------------------------------------------------------------------
(* What is read through each object *)

TensorOrder == IF kind.layout = "RowMajor" THEN "c_style" ELSE "f_style"

ElemsArr == Elements(arr.shape, arr.order, bufs[arr.buf].data)

ElemsValue == Elements(value.shape, TensorOrder, bufs[value.buf].data)

ElemsMap == Elements(mapValue.shape, TensorOrder, bufs[mapValue.buf].data)

ElemsHandle == Elements(h.shape, h.order, bufs[h.buf].data)

ValueReadable == value.state = "alive" /\ value.buf # NoBuf

HandleReadable == h.state = "alive" /\ bufs[h.buf].live

TensorCast == castRes.caster = "tensor"

MapCastDone == castRes.caster = "map"

ProducedHandle == castRes.caster # "none" /\ castRes.outcome = "handle"

ReferencePolicies == {"reference", "reference_internal"}

RvalueForms == {"rvalue", "const_rvalue"}

-----------------------------------------------------------------------------
-----------------------------------------------------------------------------
(* C2: load followed by a copy cast gives a handle with the shape and the   *)
(* elements of the foreign array, and the foreign array, the loaded tensor  *)
(* and the handle are pairwise independent: a write changes what is read    *)
(* through at most one of them.                                             *)
RoundTrip ==
    /\ loadRes.ret = "true"
    /\ TensorCast /\ castRes.switch = "copy" /\ castRes.outcome = "handle"

RoundTripEqual ==
    (RoundTrip /\ writes = 0) =>
        /\ h.shape = arr.shape
        /\ HandleReadable => ElemsHandle = ElemsArr

RoundTripIndependent ==
    (RoundTrip /\ writes' = writes + 1) =>
        LET ca == ElemsArr' # ElemsArr
            cv == ValueReadable /\ ElemsValue' # ElemsValue
            ch == HandleReadable /\ ElemsHandle' # ElemsHandle
        IN /\ ~(ca /\ cv)
           /\ ~(ca /\ ch)
           /\ ~(cv /\ ch)
           /\ h.buf \notin {arr.buf, value.buf}
           /\ value.buf # arr.buf

C2_RoundTrip == [][RoundTripEqual' /\ RoundTripIndependent]_vars

\* the array had to be reordered for the tensor, and after a write the
\* handle and the tensor read differently
C2_Witness ==
    /\ RoundTrip
    /\ TensorOrder \notin arr.flags
    /\ writes > 0
    /\ ValueReadable /\ HandleReadable
    /\ ElemsHandle # ElemsValue
    /\ ElemsValue = ElemsArr

-----------------------------------------------------------------------------
(* C3: the map loader succeeds exactly when the array has the kind's layout *)
(* flag, has Scalar as its element type, has NumIndices dimensions and a    *)
(* correct shape; otherwise it returns false; on success the view is over   *)
(* the array's own buffer and reads the array's elements.                   *)
LayoutFlagMatches ==
    \/ kind.layout = "RowMajor" /\ "c_style" \in arr.flags
    \/ kind.layout = "ColMajor" /\ "f_style" \in arr.flags

ShapeAccepted == kind.shapeKind = "Dynamic" \/ arr.shape = FixedDims

C3_MapLoadStrict ==
    mapLoadRes.ret # "none" =>
        /\ mapLoadRes.ret \in {"true", "false"}
        /\ mapLoadRes.ret = "true" <=>
              /\ LayoutFlagMatches
              /\ arr.dtype = Scalar
              /\ Len(arr.shape) = NumIndices
              /\ ShapeAccepted
        /\ mapLoadRes.ret = "false" => mapValue = NoTensor
        /\ mapLoadRes.ret = "true" =>
              /\ mapValue.state = "alive"
              /\ mapValue.buf = arr.buf
              /\ mapValue.shape = arr.shape
              /\ ElemsMap = ElemsArr

\* a view over an array with more than one row and column, written through
C3_Witness ==
    /\ mapLoadRes.ret = "true"
    /\ NumElems(arr.shape) > MaxDim
    /\ writes > 0
    /\ ElemsMap # [idx \in IndexSet(arr.shape) |-> InitElem(idx)]

-----------------------------------------------------------------------------
(* C4: on an array the adapter hands over, the owning loader succeeds       *)
(* exactly when the rank is NumIndices and the shape is correct: any shape  *)
(* for a dynamic kind, exactly the compile-time dimensions for a fixed one. *)
(* A rank mismatch is decided before a shape entry is read, and a mismatch  *)
(* returns false.  The dimensions reversed are rejected by the fixed kind.  *)
Reversed(sq) == [i \in 1..Len(sq) |-> sq[Len(sq) + 1 - i]]

C4_LoadShapeCheck ==
    (loadRes.ret # "none" /\ SafeCast(arr.dtype, Scalar)) =>
        /\ loadRes.ret \in {"true", "false"}
        /\ loadRes.ret = "true" <=> (Len(arr.shape) = NumIndices /\ ShapeAccepted)
        /\ Len(arr.shape) # NumIndices => loadRes.shapeReads = 0
        /\ (kind.shapeKind = "Fixed" /\ arr.shape = Reversed(FixedDims)
              /\ Reversed(FixedDims) # FixedDims) => loadRes.ret = "false"
        /\ (kind.shapeKind = "Fixed" /\ arr.shape = FixedDims) => loadRes.ret = "true"
        /\ loadRes.ret = "false" => value = NoTensor

\* the fixed kind rejects an array that agrees with it in the first dimension
C4_Witness ==
    /\ loadRes.ret = "false"
    /\ SafeCast(arr.dtype, Scalar)
    /\ kind.shapeKind = "Fixed"
    /\ Len(arr.shape) = NumIndices
    /\ arr.shape[1] = FixedDims[1]

-----------------------------------------------------------------------------
(* C5: a const source, in each form, is copied into an independent handle   *)
(* under copy and is refused fatally under move and take_ownership.         *)
C5_ConstSource ==
    (TensorCast /\ castRes.form \in ConstForms) =>
        /\ castRes.policy = "copy" =>
              /\ castRes.outcome = "handle"
              /\ h.owndata
              /\ h.buf # value.buf
        /\ castRes.policy \in {"move", "take_ownership"} =>
              /\ castRes.outcome = "fatal"
              /\ h = NoHandle

-----------------------------------------------------------------------------
(* C6: over the five ownership policies, casting a view produces a handle   *)
(* exactly under reference and reference_internal; copy, move and           *)
(* take_ownership fail fatally in every form, with no handle, no capsule,   *)
(* no relocated tensor and no buffer allocated.                             *)
C6_MapCastPolicies ==
    (MapCastDone /\ castRes.policy \in OwnershipPolicies) =>
        /\ castRes.outcome = "handle" <=> castRes.policy \in ReferencePolicies
        /\ castRes.policy \notin ReferencePolicies =>
              /\ castRes.outcome = "fatal"
              /\ castRes.switch = castRes.policy
              /\ h = NoHandle
              /\ capsule = NoCapsule
              /\ heapCopy = NoTensor
              /\ Len(bufs) = 1 + (IF loadRes.ret = "true" THEN 1 ELSE 0)

C6_Witness ==
    /\ MapCastDone
    /\ castRes.form = "rvalue"
    /\ castRes.policy = "move"
    /\ castRes.outcome = "fatal"

-----------------------------------------------------------------------------
(* C7 as stated: a reference policy on a temporary is fatal in both casters *)
C7_RvalueReferenceFatalBoth ==
    (castRes.caster # "none" /\ castRes.form \in RvalueForms
       /\ castRes.policy \in ReferencePolicies)
    => (castRes.outcome = "fatal" /\ h = NoHandle)

(* C7 amended: a reference policy on a temporary owning tensor, const or    *)
(* not, is fatal and produces no handle; the map caster forwards a          *)
(* temporary view to cast_impl and produces a handle.                       *)
C7_RvalueReferenceFatalOwning ==
    (castRes.caster # "none" /\ castRes.form \in RvalueForms
       /\ castRes.policy \in ReferencePolicies)
    => /\ TensorCast =>
             /\ castRes.outcome = "fatal"
             /\ castRes.switch = "none"
             /\ h = NoHandle
             /\ capsule = NoCapsule
       /\ MapCastDone => castRes.outcome = "handle"

C7_Witness ==
    /\ TensorCast
    /\ castRes.form = "const_rvalue"
    /\ castRes.policy = "reference_internal"
    /\ castRes.outcome = "fatal"

-----------------------------------------------------------------------------
(* C8: a produced handle is not writeable exactly when the policy the cast  *)
(* acts on is reference or reference_internal and the source is const.      *)
C8_WriteableFlag ==
    ProducedHandle =>
        (h.writeable = FALSE <=>
            (castRes.switch \in ReferencePolicies /\ castRes.form \in ConstForms))

C8_Witness ==
    /\ TensorCast
    /\ castRes.outcome = "handle"
    /\ castRes.form = "const_lvalue"
    /\ castRes.policy = "reference"
    /\ ~h.writeable

-----------------------------------------------------------------------------
(* C9: a handle the owning caster produces under reference or               *)
(* reference_internal reads what the source tensor reads, after any writes, *)
(* whatever parent was passed.                                              *)
C9_ReferenceAliases ==
    (TensorCast /\ castRes.outcome = "handle"
       /\ castRes.switch \in ReferencePolicies
       /\ ValueReadable /\ HandleReadable)
    => ElemsHandle = ElemsValue

-----------------------------------------------------------------------------
(* C10: in the owning caster every overload hands one of the five ownership *)
(* policies to the switch, so the default branch is never taken: a          *)
(* temporary with a non-reference policy is cast as move, a reference with  *)
(* an automatic policy as copy, a pointer with automatic as take_ownership  *)
(* and with automatic_reference as reference, anything else unchanged.      *)
C10_PolicyResolution ==
    TensorCast =>
        /\ castRes.msg # "pybind11 bug in eigen.h, please file a bug report"
        /\ castRes.switch \in OwnershipPolicies \cup {"none"}
        /\ castRes.switch = "none" <=>
              (castRes.form \in RvalueForms /\ castRes.policy \in ReferencePolicies)
        /\ (castRes.form \in RvalueForms /\ castRes.policy \notin ReferencePolicies)
              => castRes.switch = "move"
        /\ (castRes.form \in {"lvalue", "const_lvalue"}
              /\ castRes.policy \in {"automatic", "automatic_reference"})
              => castRes.switch = "copy"
        /\ (castRes.form \in {"ptr", "const_ptr"} /\ castRes.policy = "automatic")
              => castRes.switch = "take_ownership"
        /\ (castRes.form \in {"ptr", "const_ptr"}
              /\ castRes.policy = "automatic_reference")
              => castRes.switch = "reference"
        /\ (castRes.form \notin RvalueForms /\ castRes.policy \in OwnershipPolicies)
              => castRes.switch = castRes.policy

C10_Witness ==
    /\ TensorCast
    /\ castRes.form = "const_ptr"
    /\ castRes.policy = "automatic_reference"
    /\ castRes.switch = "reference"
    /\ castRes.outcome = "handle"

====
